---------------------------- MODULE Spec2Model ----------------------------
(***************************************************************************)
(* Model of src/mongodb/mongodb.py: the Mongo wrapper class around one     *)
(* pymongo collection, and the DBDefinitionError it raises.                *)
(*                                                                         *)
(* The document store itself is the driver's; it is modelled here by what  *)
(* the driver calls used in the wrapper do on a collection held as the     *)
(* sequence of its documents in natural (insertion) order.  Driver         *)
(* behaviour assumed: an empty projection returns whole documents and an   *)
(* empty "$set" is accepted (current driver and server releases).          *)
(***************************************************************************)
EXTENDS Integers, Sequences, FiniteSets, TLC

VARIABLES
    env,        \* names present in os.environ
    ctor,       \* the constructor call: arguments and how it ended
    envReads,   \* os.environ lookups made by the constructor, in order
    client,     \* self.client: the connection URI, or NoClient
    collection, \* self.collection: the bound <<database, collection>>, or Unbound
    store,      \* the store: collection handle -> sequence of documents
    call,       \* the last method call and its arguments
    res,        \* what the driver reported for the last call
    ret         \* what the wrapper returned (or raised) for the last call

vars == <<env, ctor, envReads, client, collection, store, call, res, ret>>

----------------------------------------------------------------------------
(* Bounds *)

MaxDocs == 2
MaxBatch == 2
MaxLimit == 2

----------------------------------------------------------------------------
(* Values *)

\* Python's None, among identifier values
None == -1

\* None as the database / collection argument of the constructor
NoName == "<None>"

NoClient == "<no client>"
Unbound == <<>>

EnvNames == <<"DB_USERNAME", "DB_PASSWORD", "DB_URL">>

\* names the constructor is called with
DatabaseNames == {"db"}
CollectionNames == {"c1"}

\* the collections of the server: the ones a client binds, and one it never does
Handles == DatabaseNames \X (CollectionNames \cup {"c2"})

\* identifiers a caller puts in a document itself; 0 is falsy in Python
UserIds == {0, 1}

\* identifiers the driver generates (ObjectId): truthy, never a caller's value
ObjectIds == 10 .. (9 + MaxDocs)

DataFields == {"a"}
Values == {0, 1}

EmptyDoc == [f \in {} |-> 0]

\* the mappings over the data fields: update payloads, document contents
Payloads == UNION {[D -> Values] : D \in SUBSET DataFields}

Merge(d, u) ==
    [f \in (DOMAIN d) \cup (DOMAIN u) |-> IF f \in DOMAIN u THEN u[f] ELSE d[f]]

WithId(d, id) == Merge(d, [f \in {"_id"} |-> id])

\* documents as passed to insert_one / insert_many: with or without "_id"
Documents == Payloads \cup {WithId(p, id) : p \in Payloads, id \in UserIds}

\* queries: match-all, or equality on one field
IdQueries(ids) == {[f \in {"_id"} |-> v] : v \in ids}
FieldQueries == UNION {[{f} -> Values] : f \in DataFields}
FindQueries == {EmptyDoc} \cup IdQueries(UserIds \cup ObjectIds \cup {None}) \cup FieldQueries
UpdateQueries == {EmptyDoc} \cup IdQueries(UserIds \cup ObjectIds) \cup FieldQueries

\* projections: none, include "a", exclude "a"
Projections == {EmptyDoc} \cup UNION {[{f} -> {0, 1}] : f \in DataFields}

Limits == {None} \cup (0 .. MaxLimit)

\* Python truthiness of an identifier value
Truthy(v) == v # None /\ v # 0

Min(S) == CHOOSE x \in S : \A y \in S : x <= y

RECURSIVE Ascending(_)
\* the numbers in S, ascending, as a sequence
Ascending(S) ==
    IF S = {} THEN <<>>
    ELSE LET m == Min(S) IN <<m>> \o Ascending(S \ {m})

----------------------------------------------------------------------------
(* The driver's collection primitives *)

Matches(doc, q) ==
    \A f \in DOMAIN q :
        IF q[f] = None THEN f \notin DOMAIN doc
        ELSE f \in DOMAIN doc /\ doc[f] = q[f]

MatchIdx(coll, q) == {i \in 1 .. Len(coll) : Matches(coll[i], q)}

Project(doc, fields) ==
    IF DOMAIN fields = {} THEN doc
    ELSE IF \E f \in DOMAIN fields : fields[f] = 1
    THEN [f \in {g \in DOMAIN doc :
                    \/ g \in DOMAIN fields /\ fields[g] = 1
                    \/ g = "_id" /\ g \notin DOMAIN fields} |-> doc[f]]
    ELSE [f \in {g \in DOMAIN doc : g \notin DOMAIN fields} |-> doc[f]]

\* collection.find(query, fields): the cursor's documents in natural order
Find(coll, q, fields) ==
    LET idx == Ascending(MatchIdx(coll, q))
    IN  [k \in 1 .. Len(idx) |-> Project(coll[idx[k]], fields)]

\* cursor.limit(n)
CursorLimit(docs, n) ==
    IF n = 0 \/ Len(docs) <= n THEN docs ELSE SubSeq(docs, 1, n)

Ids(coll) == {coll[i]["_id"] : i \in 1 .. Len(coll)}

FreshId(coll) == Min(ObjectIds \ Ids(coll))

\* collection.find_one(query, fields): the first match, projected, or None
StoreFindOne(coll, q, fields) ==
    LET found == Find(coll, q, fields)
    IN  IF Len(found) = 0 THEN [kind |-> "none"]
        ELSE [kind |-> "doc", val |-> found[1]]

\* the document an upsert inserts: the query's equality fields, then "$set"
UpsertDoc(coll, q, update) ==
    LET base == Merge(q, update)
    IN  IF "_id" \in DOMAIN base THEN base ELSE WithId(base, FreshId(coll))

\* collection.update_one / update_many(query, {"$set": update}, upsert=upsert)
StoreUpdate(coll, q, update, upsert, many) ==
    LET idx == MatchIdx(coll, q)
        targets == IF many \/ idx = {} THEN idx ELSE {Min(idx)}
        changed == {i \in targets : Merge(coll[i], update) # coll[i]}
        upserting == idx = {} /\ upsert
        new == UpsertDoc(coll, q, update)
        set == [i \in 1 .. Len(coll) |->
                    IF i \in targets THEN Merge(coll[i], update) ELSE coll[i]]
    IN  [coll |-> IF upserting THEN Append(set, new) ELSE set,
         matched_count |-> Cardinality(targets),
         modified_count |-> Cardinality(changed),
         upserted_id |-> IF upserting THEN new["_id"] ELSE None]

\* UpdateResult.raw_result
RawResult(u) ==
    [n |-> u.matched_count + (IF u.upserted_id # None THEN 1 ELSE 0),
     nModified |-> u.modified_count,
     upserted |-> u.upserted_id]

\* collection.insert_one(document): the driver adds "_id" when it is missing
StoreInsertOne(coll, document) ==
    LET doc == IF "_id" \in DOMAIN document THEN document
               ELSE WithId(document, FreshId(coll))
    IN  IF doc["_id"] \in Ids(coll)
        THEN [coll |-> coll, error |-> "DuplicateKeyError", inserted_id |-> None]
        ELSE [coll |-> Append(coll, doc), error |-> "", inserted_id |-> doc["_id"]]

RECURSIVE StoreInsertOrdered(_, _, _)
\* an ordered bulk insert: document after document, stopping at the first failure
StoreInsertOrdered(coll, documents, ids) ==
    IF documents = <<>>
    THEN [coll |-> coll, error |-> "", inserted_ids |-> ids]
    ELSE LET one == StoreInsertOne(coll, Head(documents))
         IN  IF one.error # ""
             THEN [coll |-> coll, error |-> "BulkWriteError", inserted_ids |-> ids]
             ELSE StoreInsertOrdered(one.coll, Tail(documents),
                                     Append(ids, one.inserted_id))

\* collection.insert_many(documents): rejects an empty batch
StoreInsertMany(coll, documents) ==
    IF documents = <<>>
    THEN [coll |-> coll, error |-> "TypeError", inserted_ids |-> <<>>]
    ELSE StoreInsertOrdered(coll, documents, <<>>)

----------------------------------------------------------------------------
(* DBDefinitionError and Mongo.__init__ *)

\* variant: the two single-argument messages exchanged
DBDefinitionError_swapped(database, coll) ==
    IF database = NoName /\ coll = NoName
    THEN "Database name and collection name are required for creating the DB client."
    ELSE IF coll = NoName
    THEN "Database name is required for creating the DB client."
    ELSE IF database = NoName
    THEN "Collection name is required for creating the DB client."
    ELSE "Initiallization error."

DBDefinitionError(database, coll) ==
    IF database = NoName /\ coll = NoName
    THEN "Database name and collection name are required for creating the DB client."
    ELSE IF coll = NoName
    THEN "Collection name is required for creating the DB client."
    ELSE IF database = NoName
    THEN "Database name is required for creating the DB client."
    ELSE "Initiallization error."

\* the os.environ lookups of the connection string, left to right, up to and
\* including the first name that is missing
EnvLookups(environ) ==
    LET missing == {i \in 1 .. Len(EnvNames) : EnvNames[i] \notin environ}
    IN  IF missing = {} THEN EnvNames ELSE SubSeq(EnvNames, 1, Min(missing))

\* the lookups Mongo.__init__ makes
init_env_reads(database, coll, environ) ==
    IF database # NoName /\ coll # NoName THEN EnvLookups(environ) ELSE <<>>

\* variant: the connection string is built before the arguments are checked
init_outcome_env_first(database, coll, environ, connects) ==
    IF \E i \in 1 .. Len(EnvNames) : EnvNames[i] \notin environ
    THEN [raised |-> "KeyError",
          message |-> EnvNames[Len(EnvLookups(environ))]]
    ELSE IF database # NoName /\ coll # NoName
    THEN IF ~connects
         THEN [raised |-> "DriverError", message |-> ""]
         ELSE [raised |-> "", message |-> ""]
    ELSE [raised |-> "DBDefinitionError",
          message |-> DBDefinitionError(database, coll)]

\* how Mongo.__init__ ends: the exception raised ("" when it returns)
init_outcome(database, coll, environ, connects) ==
    IF database # NoName /\ coll # NoName
    THEN IF \E i \in 1 .. Len(EnvNames) : EnvNames[i] \notin environ
         THEN [raised |-> "KeyError",
               message |-> EnvNames[Len(EnvLookups(environ))]]
         ELSE IF ~connects
         THEN [raised |-> "DriverError", message |-> ""]
         ELSE [raised |-> "", message |-> ""]
    ELSE [raised |-> "DBDefinitionError",
          message |-> DBDefinitionError(database, coll)]

Mongo_init(database, coll, connects) ==
    LET out == init_outcome(database, coll, env, connects)
    IN  /\ ctor.raised = "<not called>"
        /\ ctor' = [database |-> database, collection |-> coll,
                    raised |-> out.raised, message |-> out.message]
        /\ envReads' = init_env_reads(database, coll, env)
        /\ client' = IF out.raised = ""
                      THEN "mongodb+srv://DB_USERNAME:DB_PASSWORD@DB_URL/"
                      ELSE NoClient
        /\ collection' = IF out.raised = "" THEN <<database, coll>> ELSE Unbound
        /\ UNCHANGED <<env, store, call, res, ret>>

----------------------------------------------------------------------------
(* The methods, as functions of the bound collection's documents:          *)
(* [coll: the documents afterwards, res: the driver's report, ret: result] *)

\* variant: the last match instead of the first
find_one_last(coll, query, fields) ==
    LET found == Find(coll, query, fields)
    IN  [coll |-> coll,
         res |-> [kind |-> "find_one"],
         ret |-> IF Len(found) = 0 THEN [kind |-> "none"]
                 ELSE [kind |-> "doc", val |-> found[Len(found)]]]

find_one(coll, query, fields) ==
    [coll |-> coll,
     res |-> [kind |-> "find_one"],
     ret |-> StoreFindOne(coll, query, fields)]

\* variant: a limit of 0 caps the result at no documents
find_many_limit_zero(coll, query, fields, limit) ==
    LET found == Find(coll, query, fields)
    IN  [coll |-> coll,
         res |-> [kind |-> "cursor"],
         ret |-> [kind |-> "docs",
                  val |-> IF limit # None /\ limit < Len(found)
                          THEN SubSeq(found, 1, limit)
                          ELSE found]]

find_many(coll, query, fields, limit) ==
    [coll |-> coll,
     res |-> [kind |-> "cursor"],
     ret |-> [kind |-> "docs",
              val |-> IF Truthy(limit)
                      THEN CursorLimit(Find(coll, query, fields), limit)
                      ELSE Find(coll, query, fields)]]

\* variant: the record is returned whenever a document matched
update_results_matched(update_result) ==
    IF update_result.matched_count # 0
    THEN [kind |-> "result",
          val |-> [matches_found |-> update_result.matched_count,
                   modified_results |-> update_result.modified_count,
                   raw_results |-> RawResult(update_result)]]
    ELSE [kind |-> "none"]

\* the result record of update_one / update_many, or None
update_results(update_result) ==
    IF update_result.modified_count # 0
    THEN [kind |-> "result",
          val |-> [matches_found |-> update_result.matched_count,
                   modified_results |-> update_result.modified_count,
                   raw_results |-> RawResult(update_result)]]
    ELSE [kind |-> "none"]

\* variant: the upsert flag is not passed on, so the driver's default (False) applies
update_one_no_upsert(coll, query, update, upsert) ==
    LET update_result == StoreUpdate(coll, query, update, FALSE, FALSE)
    IN  [coll |-> update_result.coll,
         res |-> [kind |-> "UpdateResult",
                  matched_count |-> update_result.matched_count,
                  modified_count |-> update_result.modified_count,
                  upserted_id |-> update_result.upserted_id],
         ret |-> update_results(update_result)]

update_one(coll, query, update, upsert) ==
    LET update_result == StoreUpdate(coll, query, update, upsert, FALSE)
    IN  [coll |-> update_result.coll,
         res |-> [kind |-> "UpdateResult",
                  matched_count |-> update_result.matched_count,
                  modified_count |-> update_result.modified_count,
                  upserted_id |-> update_result.upserted_id],
         ret |-> update_results(update_result)]

update_many(coll, query, update, upsert) ==
    LET update_result == StoreUpdate(coll, query, update, upsert, TRUE)
    IN  [coll |-> update_result.coll,
         res |-> [kind |-> "UpdateResult",
                  matched_count |-> update_result.matched_count,
                  modified_count |-> update_result.modified_count,
                  upserted_id |-> update_result.upserted_id],
         ret |-> update_results(update_result)]

insert_one(coll, document) ==
    LET result == StoreInsertOne(coll, document)
    IN  [coll |-> result.coll,
         res |-> [kind |-> "InsertOneResult", error |-> result.error,
                  inserted_id |-> result.inserted_id],
         ret |-> IF result.error # ""
                 THEN [kind |-> "raise", val |-> result.error]
                 ELSE IF Truthy(result.inserted_id)
                 THEN [kind |-> "id", val |-> result.inserted_id]
                 ELSE [kind |-> "none"]]

\* variant: the identifiers come back in reverse order
insert_many_reversed(coll, documents) ==
    LET result == StoreInsertMany(coll, documents)
        n == Len(result.inserted_ids)
    IN  [coll |-> result.coll,
         res |-> [kind |-> "InsertManyResult", error |-> result.error,
                  inserted_ids |-> result.inserted_ids],
         ret |-> IF result.error # ""
                 THEN [kind |-> "raise", val |-> result.error]
                 ELSE IF result.inserted_ids # <<>>
                 THEN [kind |-> "ids",
                       val |-> [i \in 1 .. n |-> result.inserted_ids[n + 1 - i]]]
                 ELSE [kind |-> "none"]]

insert_many(coll, documents) ==
    LET result == StoreInsertMany(coll, documents)
    IN  [coll |-> result.coll,
         res |-> [kind |-> "InsertManyResult", error |-> result.error,
                  inserted_ids |-> result.inserted_ids],
         ret |-> IF result.error # ""
                 THEN [kind |-> "raise", val |-> result.error]
                 ELSE IF result.inserted_ids # <<>>
                 THEN [kind |-> "ids", val |-> result.inserted_ids]
                 ELSE [kind |-> "none"]]

----------------------------------------------------------------------------
(* Calls on the constructed client *)

Bound == collection # Unbound

\* no call is in progress: the caller has taken the previous result
Idle == call.op = "none"

\* variant: the call acts on another collection of the database
Effect_other(c, out) ==
    /\ store' = [store EXCEPT ![<<collection[1], "c2">>] = out.coll]
    /\ call' = c
    /\ res' = out.res
    /\ ret' = out.ret
    /\ UNCHANGED <<env, ctor, envReads, client, collection>>

\* the call acts on self.collection: the bound collection's documents change
\* as the method says, and the call, the driver's report and the result are kept
Effect(c, out) ==
    /\ store' = [store EXCEPT ![collection] = out.coll]
    /\ call' = c
    /\ res' = out.res
    /\ ret' = out.ret
    /\ UNCHANGED <<env, ctor, envReads, client, collection>>

Call_find_one ==
    /\ Bound /\ Idle
    /\ \E query \in FindQueries, fields \in Projections :
            Effect([op |-> "find_one", query |-> query, fields |-> fields],
                   find_one(store[collection], query, fields))

Call_find_many ==
    /\ Bound /\ Idle
    /\ \E query \in FindQueries, fields \in Projections, limit \in Limits :
            Effect([op |-> "find_many", query |-> query, fields |-> fields,
                    limit |-> limit],
                   find_many(store[collection], query, fields, limit))

\* the collection holds at most MaxDocs documents: an upsert needs room
Call_update_one ==
    /\ Bound /\ Idle
    /\ \E query \in UpdateQueries, update \in Payloads, upsert \in BOOLEAN :
            /\ \/ Len(store[collection]) < MaxDocs
               \/ MatchIdx(store[collection], query) # {}
               \/ ~upsert
            /\ Effect([op |-> "update_one", query |-> query, update |-> update,
                       upsert |-> upsert],
                      update_one(store[collection], query, update, upsert))

Call_update_many ==
    /\ Bound /\ Idle
    /\ \E query \in UpdateQueries, update \in Payloads, upsert \in BOOLEAN :
            /\ \/ Len(store[collection]) < MaxDocs
               \/ MatchIdx(store[collection], query) # {}
               \/ ~upsert
            /\ Effect([op |-> "update_many", query |-> query, update |-> update,
                       upsert |-> upsert],
                      update_many(store[collection], query, update, upsert))

Call_insert_one ==
    /\ Bound /\ Idle
    /\ Len(store[collection]) < MaxDocs
    /\ \E document \in Documents :
            Effect([op |-> "insert_one", document |-> document],
                   insert_one(store[collection], document))

\* batches of up to MaxBatch documents; an empty batch is the method's default
Batches == UNION {[1 .. k -> Documents] : k \in 0 .. MaxBatch}

Call_insert_many ==
    /\ Bound /\ Idle
    /\ \E documents \in Batches :
            /\ Len(store[collection]) + Len(documents) <= MaxDocs
            /\ Effect([op |-> "insert_many", documents |-> documents],
                      insert_many(store[collection], documents))

\* the method has returned (or raised) and the caller goes on
Return ==
    /\ ~Idle
    /\ call' = [op |-> "none"]
    /\ res' = [kind |-> "none"]
    /\ ret' = [kind |-> "none"]
    /\ UNCHANGED <<env, ctor, envReads, client, collection, store>>

----------------------------------------------------------------------------

Init ==
    /\ env \in SUBSET {EnvNames[i] : i \in 1 .. Len(EnvNames)}
    /\ ctor = [database |-> NoName, collection |-> NoName,
               raised |-> "<not called>", message |-> ""]
    /\ envReads = <<>>
    /\ client = NoClient
    /\ collection = Unbound
    /\ store = [h \in Handles |-> <<>>]
    /\ call = [op |-> "none"]
    /\ res = [kind |-> "none"]
    /\ ret = [kind |-> "none"]

Next ==
    \/ \E database \in DatabaseNames \cup {NoName},
          coll \in CollectionNames \cup {NoName}, connects \in BOOLEAN :
            Mongo_init(database, coll, connects)
    \/ Call_find_one
    \/ Call_find_many
    \/ Call_update_one
    \/ Call_update_many
    \/ Call_insert_one
    \/ Call_insert_many
    \/ Return

Spec == Init /\ [][Next]_vars

----------------------------------------------------------------------------
(* Properties *)

Called == ctor.raised # "<not called>"

\* the documents of the bound collection before and after a step
Before == store[collection]
After == store'[collection]

\* a step that is the call of one of the methods in ops
Calling(ops) == Bound /\ Idle /\ call'.op \in ops

\* d is the document content plus an identifier field
PlusId(d, content) ==
    /\ DOMAIN d = DOMAIN content \cup {"_id"}
    /\ \A f \in DOMAIN content : d[f] = content[f]

\* C1: update_one and update_many return the record {matches_found,
\* modified_results, raw_results} exactly when the store modified at least one
\* document, and None otherwise; a call that matched but changed nothing and a
\* call whose upsert inserted a document both return None.
C1_UpdateReturn ==
    [][Calling({"update_one", "update_many"}) =>
        LET changed == {i \in 1 .. Len(Before) : After[i] # Before[i]}
            matching == MatchIdx(Before, call'.query)
        IN  /\ ret'.kind \in {"result", "none"}
            /\ ret'.kind = "result" <=> res'.modified_count # 0
            /\ res'.modified_count = Cardinality(changed)
            /\ ret'.kind = "result" =>
                    /\ ret'.val.modified_results = Cardinality(changed)
                    /\ ret'.val.matches_found =
                            IF call'.op = "update_many" THEN Cardinality(matching)
                            ELSE 1
                    /\ ret'.val.raw_results.nModified = Cardinality(changed)
            /\ matching # {} /\ changed = {} => ret'.kind = "none"
            /\ Len(After) > Len(Before) => ret'.kind = "none"]_vars

C1_Witness ==
    /\ call.op = "update_one"
    /\ res.upserted_id # None
    /\ res.modified_count = 0
    /\ Len(store[collection]) = 2
    /\ ret.kind = "none"

\* C2: construction with database or collection absent raises the configuration
\* error, with the message fixed by which argument is absent; construction with
\* both present never raises it.
C2_ConstructorMessage ==
    Called =>
        /\ ctor.database = NoName /\ ctor.collection = NoName =>
                /\ ctor.raised = "DBDefinitionError"
                /\ ctor.message =
                     "Database name and collection name are required for creating the DB client."
        /\ ctor.database # NoName /\ ctor.collection = NoName =>
                /\ ctor.raised = "DBDefinitionError"
                /\ ctor.message =
                     "Collection name is required for creating the DB client."
        /\ ctor.database = NoName /\ ctor.collection # NoName =>
                /\ ctor.raised = "DBDefinitionError"
                /\ ctor.message =
                     "Database name is required for creating the DB client."
        /\ ctor.database # NoName /\ ctor.collection # NoName =>
                ctor.raised # "DBDefinitionError"

C2_Witness ==
    /\ ctor.raised = "DBDefinitionError"
    /\ ctor.database = NoName
    /\ ctor.collection # NoName

\* C3: with n documents matching, find_many returns min(limit, n) documents
\* for a positive limit and all n for limit None or 0; what it returns is a
\* prefix of the matches in store order.
C3_FindManyLimit ==
    call.op = "find_many" =>
        LET coll == store[collection]
            matching == MatchIdx(coll, call.query)
            n == Cardinality(matching)
            nth(k) == CHOOSE i \in matching :
                          Cardinality({j \in matching : j <= i}) = k
        IN  /\ ret.kind = "docs"
            /\ Len(ret.val) =
                    IF call.limit = None \/ call.limit = 0 THEN n
                    ELSE IF call.limit < n THEN call.limit ELSE n
            /\ \A k \in 1 .. Len(ret.val) :
                    ret.val[k] = Project(coll[nth(k)], call.fields)

C3_Witness ==
    /\ call.op = "find_many"
    /\ call.limit = 1
    /\ Cardinality(MatchIdx(store[collection], call.query)) = 2
    /\ Len(ret.val) = 1

\* C4: update_one with upsert true and no matching document adds exactly one
\* document, which carries every field of the update payload, and changes no
\* existing document; with upsert false and no match the collection is unchanged.
C4_UpsertInsertsOne ==
    [][Calling({"update_one"}) /\ MatchIdx(Before, call'.query) = {} =>
        IF call'.upsert
        THEN /\ Len(After) = Len(Before) + 1
             /\ \A f \in DOMAIN call'.update :
                    /\ f \in DOMAIN After[Len(After)]
                    /\ After[Len(After)][f] = call'.update[f]
             /\ \A i \in 1 .. Len(Before) : After[i] = Before[i]
        ELSE After = Before]_vars

C4_Witness ==
    /\ call.op = "update_one"
    /\ call.upsert
    /\ call.update # EmptyDoc
    /\ res.upserted_id # None
    /\ Len(store[collection]) = 2

\* what find_one({"_id": id}) returns on the bound collection
Lookup(id) == find_one(store[collection], [f \in {"_id"} |-> id], EmptyDoc).ret

\* C5: insert_one(doc) followed by find_one({"_id": returned}) gives back doc
\* plus the identifier field, for every document doc.
C5_RoundTrip ==
    call.op = "insert_one" /\ ret.kind # "raise" =>
        LET returned == IF ret.kind = "id" THEN ret.val ELSE None
        IN  /\ Lookup(returned).kind = "doc"
            /\ PlusId(Lookup(returned).val, call.document)

\* C6: insert_one returns the identifier under which the store recorded the
\* document, and None only when the store reports no identifier, also for a
\* document that carries its own identifier.
C6_InsertOneReturnsId ==
    call.op = "insert_one" /\ ret.kind # "raise" =>
        LET coll == store[collection]
        IN  /\ ret.kind = "none" => res.inserted_id = None
            /\ ret.kind = "id"
            /\ ret.val = coll[Len(coll)]["_id"]

\* C7 as stated: insert_many of k >= 1 documents returns k identifiers in input
\* order, each resolving through find_one to the document at its position.
C7_InsertManyAlways ==
    call.op = "insert_many" /\ call.documents # <<>> =>
        /\ ret.kind = "ids"
        /\ Len(ret.val) = Len(call.documents)
        /\ \A i \in 1 .. Len(call.documents) :
                /\ Lookup(ret.val[i]).kind = "doc"
                /\ PlusId(Lookup(ret.val[i]).val, call.documents[i])

\* C7 amended: the same, for the calls the store accepts; a batch the store
\* rejects (an identifier given twice or already stored) raises the driver's
\* error and returns nothing.
C7_InsertManyAccepted ==
    call.op = "insert_many" /\ call.documents # <<>> =>
        \/ /\ ret.kind = "raise"
           /\ \E i \in 1 .. Len(call.documents) :
                /\ "_id" \in DOMAIN call.documents[i]
                /\ \/ \E j \in 1 .. (i - 1) :
                          /\ "_id" \in DOMAIN call.documents[j]
                          /\ call.documents[j]["_id"] = call.documents[i]["_id"]
                   \/ Cardinality({k \in 1 .. Len(store[collection]) :
                          store[collection][k]["_id"] = call.documents[i]["_id"]}) = 1
        \/ /\ ret.kind = "ids"
           /\ Len(ret.val) = Len(call.documents)
           /\ \A i \in 1 .. Len(call.documents) :
                /\ Lookup(ret.val[i]).kind = "doc"
                /\ PlusId(Lookup(ret.val[i]).val, call.documents[i])

C7_Witness ==
    /\ call.op = "insert_many"
    /\ Len(call.documents) = 2
    /\ call.documents[1] # call.documents[2]
    /\ ret.kind = "ids"
    /\ ret.val[1] # ret.val[2]

\* C8: find_one returns the first document of the collection matching the
\* query (through the projection asked for), None and no error when nothing
\* matches, and leaves the collection as it was.
C8_FindOneFirstOrNone ==
    [][Calling({"find_one"}) =>
        LET matching == MatchIdx(Before, call'.query)
        IN  /\ store' = store
            /\ ret'.kind # "raise"
            /\ matching = {} => ret'.kind = "none"
            /\ matching # {} =>
                    /\ ret'.kind = "doc"
                    /\ \E i \in matching :
                          /\ \A j \in matching : i <= j
                          /\ ret'.val = Project(Before[i], call'.fields)
                          /\ call'.fields = EmptyDoc => ret'.val = Before[i]]_vars

C8_Witness ==
    /\ call.op = "find_one"
    /\ call.fields = EmptyDoc
    /\ Cardinality(MatchIdx(store[collection], call.query)) = 2
    /\ ret.kind = "doc"
    /\ ret.val = store[collection][1]

\* C9: once constructed, the client stays bound to the database and collection
\* it was constructed with: no call changes the connection or the collection
\* handle, and no call touches another collection.
C9_BoundForLife ==
    [][/\ Bound' => collection' = <<ctor'.database, ctor'.collection>>
       /\ Bound =>
            /\ collection' = collection
            /\ client' = client
            /\ \A h \in Handles \ {collection} : store'[h] = store[h]]_vars

C9_Witness ==
    /\ Bound
    /\ call.op = "update_many"
    /\ ret.kind = "result"
    /\ Len(store[collection]) = 2
    /\ collection = <<ctor.database, ctor.collection>>

\* C10: the constructor checks its arguments before any environment lookup or
\* connection: with an argument absent it raises the configuration error having
\* looked up nothing and opened nothing, whatever the environment holds; the
\* lookup failure occurs only with both names present, and leaves no bound client.
C10_ArgumentsBeforeEnvironment ==
    Called =>
        /\ ctor.database = NoName \/ ctor.collection = NoName =>
                /\ ctor.raised = "DBDefinitionError"
                /\ envReads = <<>>
                /\ client = NoClient
        /\ ctor.raised = "KeyError" =>
                /\ ctor.database # NoName /\ ctor.collection # NoName
                /\ ctor.message \notin env
                /\ collection = Unbound
                /\ client = NoClient

C10_Witness ==
    /\ ctor.raised = "DBDefinitionError"
    /\ "DB_USERNAME" \notin env
    /\ envReads = <<>>

============================================================================
